---- MODULE Spec2Model ----
(***************************************************************************)
(* Model of gpu/ocl/bnorm/reusable_bnorm.hpp: the reusable batch           *)
(* normalization primitives (forward and backward), their primitive        *)
(* descriptors (pd_t::init), the kernel-name lists they request and the    *)
(* serialization of reusable_bnorm_params_t.                               *)
(***************************************************************************)
EXTENDS Integers, Sequences, FiniteSets, TLC

VARIABLES pc, desc, pd, prim, launches, exec_status, pair, sst, rec, key, out

\* one primitive: its descriptor, pd_t, kernels and launches
primvars == <<pc, desc, pd, prim, launches, exec_status>>

\* two primitives side by side
pairvars == <<pair>>

\* a configuration record, its serialized bytes and the record read back
servars == <<sst, rec, key, out>>

vars == <<pc, desc, pd, prim, launches, exec_status, pair, sst, rec, key, out>>

-----------------------------------------------------------------------------
(* Bounds of the model *)

\* largest minibatch dimension of the source tensor (0 is a zero-sized dimension)
MaxMB == 1

\* largest channel dimension of the source tensor (0 is a zero-sized dimension)
MaxIC == 2

\* largest identifier of a dispatch compile-parameter descriptor (one per block layout)
MaxLayout == 1

\* most bytes appended to a serialized record to form an over-long key
MaxExtra == 1

-----------------------------------------------------------------------------
(* Values *)

Absent == "absent"

None == "none"

\* data types a descriptor may name: the four the implementation lists and one it does not
DataTypes == {"f32", "bf16", "f16", "s8", "s32"}

OtherDT(dt) == IF dt = "f32" THEN "bf16" ELSE "f32"

PropKinds == {"forward_training", "forward_inference", "backward"}

\* attribute sets: default, one relu post-op (zero or non-zero negative slope),
\* two post-ops, and a non-default attribute that is not a post-op
AttrKinds == {"default", "relu", "leaky_relu", "two_post_ops", "scales"}

\* the forward descriptor given as hint: none, one without a workspace, one with the default workspace
HintKinds == {"null", "no_ws", "default_ws"}

-----------------------------------------------------------------------------
(* reusable_bnorm_params_t *)

get_kernel_names == <<"reusable_bnorm_fwd", "reusable_calculate_mean", "reusable_calculate_variance", "reusable_reduce_mean", "reusable_reduce_variance", "reusable_calculate_stats", "reusable_reduce_stats", "reusable_bnorm_bwd">>

Range(s) == {s[i] : i \in DOMAIN s}

\* engine.create_kernel_bundle(bundle, get_kernel_names(), get_kernel_ctx()):
\* the set of kernel names handed to the engine for compilation
create_generator(conf) == Range(get_kernel_names)

\* a slip in the record: padding declared without its initializer
DefaultPadding_uninitialized == <<1, 0, 0, 0>>

\* uint8_t padding[4] = {0}
DefaultPadding == <<0, 0, 0, 0>>

\* reusable_bnorm_params_t t {}: every member zero
ZeroConf == [data_type |-> "undef", use_scale |-> FALSE, use_shift |-> FALSE, is_training |-> FALSE, fuse_norm_relu |-> FALSE, fuse_norm_add_relu |-> FALSE, with_relu |-> FALSE, with_leaky_relu |-> FALSE, calculate_stats |-> FALSE, padding |-> <<0, 0, 0, 0>>, calc_stat_params |-> 0, reduce_stat_params |-> 0, gws_params |-> 0]

\* a reusable_bnorm_params_t member before init_conf: only padding has an initializer,
\* the other members hold whatever the storage held (two such contents are modelled)
IndeterminateConfs == {[ZeroConf EXCEPT !.padding = DefaultPadding], [data_type |-> "s8", use_scale |-> TRUE, use_shift |-> TRUE, is_training |-> TRUE, fuse_norm_relu |-> TRUE, fuse_norm_add_relu |-> TRUE, with_relu |-> TRUE, with_leaky_relu |-> TRUE, calculate_stats |-> TRUE, padding |-> DefaultPadding, calc_stat_params |-> MaxLayout, reduce_stat_params |-> MaxLayout, gws_params |-> MaxLayout]}

DefaultConf == [ZeroConf EXCEPT !.padding = DefaultPadding]

DefaultRtConf == [ic |-> 0, reduction_nelems |-> 0]

-----------------------------------------------------------------------------
(* batch_normalization_pd_t queries used by pd_t::init *)

is_fwd(d) == d.prop_kind \in {"forward_training", "forward_inference"}

is_training(d) == d.prop_kind = "forward_training"

stats_is_src(d) == d.use_global_stats

has_zero_dim_memory(d) == d.mb = 0 \/ d.ic = 0

attr_has_default_values(d) == d.attr = "default"

\* has_default_values(skip_mask_t::post_ops): everything but the post-ops is default
attr_has_default_values_skip_post_ops(d) == d.attr # "scales"

post_ops_len(d) == CASE d.attr \in {"relu", "leaky_relu"} -> 1 [] d.attr = "two_post_ops" -> 2 [] OTHER -> 0

\* with_relu_post_op(is_training()): a single relu whose negative slope is zero when training
with_relu_post_op(d) == \/ d.attr = "relu"
                        \/ d.attr = "leaky_relu" /\ ~is_training(d)

\* the workspace descriptor init_default_ws(8) sets: one byte per element of src
init_default_ws(p) == [p EXCEPT !.ws_md = "default_ws", !.trace = Append(@, "init_default_ws")]

\* compare_ws(hint_fwd_pd_): a forward hint exists and its workspace equals this one
compare_ws(p, d) == d.hint # "null" /\ d.hint = p.ws_md

\* the logical fields init_conf derives from the descriptor
ConfFields(d) == [data_type |-> d.src_dt, use_scale |-> d.use_scale, use_shift |-> d.use_shift, is_training |-> is_training(d), fuse_norm_relu |-> d.fuse_norm_relu, fuse_norm_add_relu |-> d.fuse_norm_add_relu, with_relu |-> d.attr \in {"relu", "leaky_relu"}, with_leaky_relu |-> d.attr = "leaky_relu", calculate_stats |-> ~stats_is_src(d), calc_stat_params |-> d.layout, reduce_stat_params |-> d.layout, gws_params |-> d.layout]

\* init_conf assigns every logical field of conf; the padding member is not written
SetConf(conf, f) == [conf EXCEPT !.data_type = f.data_type, !.use_scale = f.use_scale, !.use_shift = f.use_shift, !.is_training = f.is_training, !.fuse_norm_relu = f.fuse_norm_relu, !.fuse_norm_add_relu = f.fuse_norm_add_relu, !.with_relu = f.with_relu, !.with_leaky_relu = f.with_leaky_relu, !.calculate_stats = f.calculate_stats, !.calc_stat_params = f.calc_stat_params, !.reduce_stat_params = f.reduce_stat_params, !.gws_params = f.gws_params]

\* init_conf: the configuration record and the run-time record from the descriptor
init_conf(p, d) == [p EXCEPT !.conf = SetConf(@, ConfFields(d)), !.rt_conf = [ic |-> d.ic, reduction_nelems |-> d.mb], !.trace = Append(@, "init_conf")]

init_scratchpad(p) == [p EXCEPT !.scratchpad = TRUE, !.trace = Append(@, "init_scratchpad")]

Return(p, st) == [p EXCEPT !.status = st]

\* a pd_t as its constructor leaves it
NewPd == [ws_md |-> "no_ws", conf |-> DefaultConf, rt_conf |-> DefaultRtConf, scratchpad |-> FALSE, trace |-> <<>>, status |-> None]

-----------------------------------------------------------------------------
(* reusable_batch_normalization_fwd_t::pd_t::init *)

\* a slip in pd_t::init: the s8 restriction left out
FwdOk_s8Unrestricted(d) == /\ is_fwd(d)
                           /\ d.src_dt \in {"f32", "bf16", "f16", "s8"}
                           /\ (d.src_dt = "f16" => d.khr_fp16)
                           /\ d.src_dt = d.dst_dt
                           /\ d.scale_shift_dt_ok
                           /\ attr_has_default_values_skip_post_ops(d)
                           /\ (~attr_has_default_values(d) => post_ops_len(d) = 1 /\ with_relu_post_op(d))
                           /\ d.formats_ok
                           /\ d.md_equal
                           /\ d.intel_subgroups

FwdOk(d) == /\ is_fwd(d)
            /\ d.src_dt \in {"f32", "bf16", "f16", "s8"}
            /\ (d.src_dt = "f16" => d.khr_fp16)
            /\ d.src_dt = d.dst_dt
            /\ (d.src_dt = "s8" => ~is_training(d) /\ stats_is_src(d))
            /\ d.scale_shift_dt_ok
            /\ attr_has_default_values_skip_post_ops(d)
            /\ (~attr_has_default_values(d) => post_ops_len(d) = 1 /\ with_relu_post_op(d))
            /\ d.formats_ok
            /\ d.md_equal
            /\ d.intel_subgroups

FwdAfterWs(p, d) == IF is_training(d) /\ (d.fuse_norm_relu \/ d.fuse_norm_add_relu) THEN init_default_ws(p) ELSE p

\* CHECK(init_conf(engine)); init_scratchpad(); return status::success
ConfStep(p, d) == Return(init_scratchpad(init_conf(p, d)), "success")

FwdPdInit(p, d) == IF ~FwdOk(d) THEN Return(p, "unimplemented") ELSE ConfStep(FwdAfterWs(p, d), d)

(* reusable_batch_normalization_bwd_t::pd_t::init *)

BwdOk(d) == /\ ~is_fwd(d)
            /\ d.src_dt \in {"f32", "bf16", "f16"}
            /\ (d.src_dt = "f16" => d.khr_fp16)
            /\ d.src_dt = d.diff_src_dt
            /\ d.diff_src_dt = d.diff_dst_dt
            /\ d.scale_shift_dt_ok
            /\ attr_has_default_values(d)
            /\ d.formats_ok
            /\ d.md_equal

BwdFused(d) == d.fuse_norm_relu \/ d.fuse_norm_add_relu

\* the fused branch: CHECK(init_default_ws(8)); if (!compare_ws(hint_fwd_pd_)) return unimplemented
BwdAfterWs(p, d) == [init_default_ws(p) EXCEPT !.trace = Append(@, "compare_ws")]

\* a slip in pd_t::init: the workspace reserved but never compared with the forward one
BwdPdInit_noCompare(p, d) == IF ~BwdOk(d) THEN Return(p, "unimplemented") ELSE IF ~BwdFused(d) THEN ConfStep(p, d) ELSE ConfStep(init_default_ws(p), d)

BwdPdInit(p, d) == IF ~BwdOk(d) THEN Return(p, "unimplemented") ELSE IF ~BwdFused(d) THEN ConfStep(p, d) ELSE IF ~compare_ws(init_default_ws(p), d) THEN Return(BwdAfterWs(p, d), "unimplemented") ELSE ConfStep(BwdAfterWs(p, d), d)

-----------------------------------------------------------------------------
(* primitive init: the kernel names requested *)

\* a slip in init: the auxiliary names in launch order (mean, reduce mean, variance, reduce variance)
FwdKernelNames_launchOrder(p) == IF p.conf.calculate_stats THEN <<"reusable_bnorm_fwd", "reusable_calculate_mean", "reusable_reduce_mean", "reusable_calculate_variance", "reusable_reduce_variance">> ELSE <<"reusable_bnorm_fwd", Absent, Absent, Absent, Absent>>

\* a slip in init: the reduction kernels asked for only when there is more than one channel
FwdKernelNames_byShape(p) == IF p.conf.calculate_stats /\ p.rt_conf.ic > 1 THEN <<"reusable_bnorm_fwd", "reusable_calculate_mean", "reusable_calculate_variance", "reusable_reduce_mean", "reusable_reduce_variance">> ELSE <<"reusable_bnorm_fwd", Absent, Absent, Absent, Absent>>

FwdKernelNames(p) == IF p.conf.calculate_stats THEN <<"reusable_bnorm_fwd", "reusable_calculate_mean", "reusable_calculate_variance", "reusable_reduce_mean", "reusable_reduce_variance">> ELSE <<"reusable_bnorm_fwd", Absent, Absent, Absent, Absent>>

BwdKernelNames(p) == <<"reusable_bnorm_bwd", "reusable_calculate_stats", "reusable_reduce_stats">>

\* the kernel members of a primitive before init: every handle is empty
NoKernels(n) == [i \in 1..n |-> Absent]

NewPrim(n) == [kernel_names |-> <<>>, create_kernels_called |-> FALSE, compiled |-> {}, kernels |-> NoKernels(n), status |-> None]

NumKernels(impl) == IF impl = "fwd" THEN 5 ELSE 3

\* create_kernels(engine, kernels, kernel_names, conf): the bundle is generated from
\* conf (create_generator) and the handles of the names asked for are taken from it;
\* an absent name yields an absent handle at the same position
create_kernels(names, conf) == [n \in DOMAIN names |-> IF names[n] \in create_generator(conf) THEN names[n] ELSE Absent]

\* CHECK(create_kernels(...)) and the assignment of the handles to the members
Requested(pr, names, conf, ck_ok) == IF ck_ok THEN [pr EXCEPT !.kernel_names = names, !.create_kernels_called = TRUE, !.compiled = create_generator(conf), !.kernels = create_kernels(names, conf), !.status = "success"] ELSE [pr EXCEPT !.kernel_names = names, !.create_kernels_called = TRUE, !.compiled = create_generator(conf), !.status = "runtime_error"]

\* a slip in init: the zero-dimension return left out
FwdInit_noZeroDimReturn(pr, p, d, ck_ok) == Requested(pr, FwdKernelNames(p), p.conf, ck_ok)

FwdInit(pr, p, d, ck_ok) == IF has_zero_dim_memory(d) THEN [pr EXCEPT !.status = "success"] ELSE Requested(pr, FwdKernelNames(p), p.conf, ck_ok)

BwdInit(pr, p, d, ck_ok) == IF has_zero_dim_memory(d) THEN [pr EXCEPT !.status = "success"] ELSE Requested(pr, BwdKernelNames(p), p.conf, ck_ok)

-----------------------------------------------------------------------------
(* execute: the launch sequence *)

execute_forward(p, d) == IF has_zero_dim_memory(d) THEN <<>> ELSE IF p.conf.calculate_stats THEN <<"reusable_calculate_mean", "reusable_calculate_variance", "reusable_reduce_mean", "reusable_reduce_variance", "reusable_bnorm_fwd">> ELSE <<"reusable_bnorm_fwd">>

execute_backward(p, d) == IF has_zero_dim_memory(d) THEN <<>> ELSE <<"reusable_calculate_stats", "reusable_reduce_stats", "reusable_bnorm_bwd">>

\* the launches issued when stage number fail reports a device error (0: none does)
Issued(stages, fail) == IF fail = 0 THEN stages ELSE SubSeq(stages, 1, fail)

-----------------------------------------------------------------------------
(* Descriptors *)

FwdDescs == [impl : {"fwd"}, prop_kind : PropKinds, src_dt : DataTypes, dst_same : BOOLEAN, diff_src_same : {TRUE}, diff_dst_same : {TRUE}, khr_fp16 : BOOLEAN, intel_subgroups : BOOLEAN, use_global_stats : BOOLEAN, scale_shift_dt_ok : BOOLEAN, attr : AttrKinds, formats_ok : BOOLEAN, md_equal : BOOLEAN, fuse_norm_relu : BOOLEAN, fuse_norm_add_relu : BOOLEAN, hint : {"null"}, mb : 0..MaxMB, ic : 0..MaxIC]

BwdDescs == [impl : {"bwd"}, prop_kind : PropKinds, src_dt : DataTypes, dst_same : {TRUE}, diff_src_same : BOOLEAN, diff_dst_same : BOOLEAN, khr_fp16 : BOOLEAN, intel_subgroups : {TRUE}, use_global_stats : {FALSE}, scale_shift_dt_ok : BOOLEAN, attr : {"default", "relu"}, formats_ok : BOOLEAN, md_equal : BOOLEAN, fuse_norm_relu : BOOLEAN, fuse_norm_add_relu : BOOLEAN, hint : HintKinds, mb : 0..MaxMB, ic : 0..MaxIC]

\* the descriptor record pd_t::init reads, from the choices above
MkDesc(c) == [impl |-> c.impl, prop_kind |-> c.prop_kind, src_dt |-> c.src_dt, dst_dt |-> IF c.dst_same THEN c.src_dt ELSE OtherDT(c.src_dt), diff_src_dt |-> IF c.diff_src_same THEN c.src_dt ELSE OtherDT(c.src_dt), diff_dst_dt |-> IF c.diff_dst_same THEN c.src_dt ELSE OtherDT(c.src_dt), khr_fp16 |-> c.khr_fp16, intel_subgroups |-> c.intel_subgroups, use_global_stats |-> c.use_global_stats, scale_shift_dt_ok |-> c.scale_shift_dt_ok, attr |-> c.attr, formats_ok |-> c.formats_ok, md_equal |-> c.md_equal, fuse_norm_relu |-> c.fuse_norm_relu, fuse_norm_add_relu |-> c.fuse_norm_add_relu, hint |-> c.hint, mb |-> c.mb, ic |-> c.ic, use_scale |-> FALSE, use_shift |-> FALSE, layout |-> 0]

NoDesc == MkDesc([impl |-> "fwd", prop_kind |-> "forward_inference", src_dt |-> "f32", dst_same |-> TRUE, diff_src_same |-> TRUE, diff_dst_same |-> TRUE, khr_fp16 |-> FALSE, intel_subgroups |-> FALSE, use_global_stats |-> FALSE, scale_shift_dt_ok |-> FALSE, attr |-> "default", formats_ok |-> FALSE, md_equal |-> FALSE, fuse_norm_relu |-> FALSE, fuse_norm_add_relu |-> FALSE, hint |-> "null", mb |-> 0, ic |-> 0])

-----------------------------------------------------------------------------
(* serialize / deserialize: the bytes of a reusable_bnorm_params_t *)

\* data_type_t is a 4-byte enumeration
DataTypeCode(dt) == CASE dt = "f16" -> 1 [] dt = "bf16" -> 2 [] dt = "f32" -> 3 [] dt = "s32" -> 4 [] dt = "s8" -> 5 [] OTHER -> 0

LE32(n) == <<n % 256, (n \div 256) % 256, (n \div 65536) % 256, (n \div 16777216) % 256>>

FromLE32(b) == b[1] + 256 * b[2] + 65536 * b[3] + 16777216 * b[4]

DataTypeOf(code) == IF \E dt \in DataTypes : DataTypeCode(dt) = code THEN CHOOSE dt \in DataTypes : DataTypeCode(dt) = code ELSE "undef"

BoolByte(b) == IF b THEN 1 ELSE 0

ByteBool(x) == x # 0

\* a dispatch_compile_params_t, as the bytes that tell one descriptor from another
DispatchBytes(v) == <<v>>

\* a slip in the layout: use_shift stored before use_scale
serialize_flagsSwapped(c) == LE32(DataTypeCode(c.data_type)) \o <<BoolByte(c.use_shift), BoolByte(c.use_scale), BoolByte(c.is_training), BoolByte(c.fuse_norm_relu), BoolByte(c.fuse_norm_add_relu), BoolByte(c.with_relu), BoolByte(c.with_leaky_relu), BoolByte(c.calculate_stats)>> \o c.padding \o DispatchBytes(c.calc_stat_params) \o DispatchBytes(c.reduce_stat_params) \o DispatchBytes(c.gws_params)

\* serialized_t(*this): the members in declaration order
serialize(c) == LE32(DataTypeCode(c.data_type)) \o <<BoolByte(c.use_scale), BoolByte(c.use_shift), BoolByte(c.is_training), BoolByte(c.fuse_norm_relu), BoolByte(c.fuse_norm_add_relu), BoolByte(c.with_relu), BoolByte(c.with_leaky_relu), BoolByte(c.calculate_stats)>> \o c.padding \o DispatchBytes(c.calc_stat_params) \o DispatchBytes(c.reduce_stat_params) \o DispatchBytes(c.gws_params)

\* sizeof(reusable_bnorm_params_t)
RecordSize == Len(serialize(ZeroConf))

\* the record whose object representation is the bytes b (Len(b) = RecordSize)
FromBytes(b) == [data_type |-> DataTypeOf(FromLE32(SubSeq(b, 1, 4))), use_scale |-> ByteBool(b[5]), use_shift |-> ByteBool(b[6]), is_training |-> ByteBool(b[7]), fuse_norm_relu |-> ByteBool(b[8]), fuse_norm_add_relu |-> ByteBool(b[9]), with_relu |-> ByteBool(b[10]), with_leaky_relu |-> ByteBool(b[11]), calculate_stats |-> ByteBool(b[12]), padding |-> SubSeq(b, 13, 16), calc_stat_params |-> b[17], reduce_stat_params |-> b[18], gws_params |-> b[19]]

ZeroFill(b) == b \o [i \in 1..(RecordSize - Len(b)) |-> 0]

\* deserializer_t::pop(t) on the bytes s: sizeof(t) bytes are copied from the front;
\* when s holds fewer, the read runs past the end of the data: the build may stop
\* on an assertion, leave t as it was, or fill the front of t
pop(t, s) == IF Len(s) >= RecordSize THEN {[ok |-> TRUE, value |-> FromBytes(SubSeq(s, 1, RecordSize))]} ELSE {[ok |-> FALSE, value |-> t], [ok |-> TRUE, value |-> t], [ok |-> TRUE, value |-> FromBytes(ZeroFill(s))]}

\* deserialize(s): t {}; deserializer_t d(s); d.pop(t); return t
deserialize(s) == pop(ZeroConf, s)

NoOut == [ok |-> FALSE, value |-> ZeroConf]

-----------------------------------------------------------------------------
(* The life of one primitive: descriptor, pd_t::init, primitive init, execute *)

NoPair == [i \in 1..2 |-> [st |-> "none", desc |-> NoDesc, pd |-> NewPd, prim |-> NewPrim(0)]]

Init == /\ pc = "none"
        /\ desc = NoDesc
        /\ pd = NewPd
        /\ prim = NewPrim(0)
        /\ launches = <<>>
        /\ exec_status = None
        /\ pair = NoPair
        /\ sst = "none"
        /\ rec = ZeroConf
        /\ key = <<>>
        /\ out = NoOut

\* pd_t(adesc, attr, hint_fwd_pd) and the primitive object that will hold its kernels
PdCreate == /\ pc = "none"
            /\ \E c \in FwdDescs \cup BwdDescs : desc' = MkDesc(c) /\ prim' = NewPrim(NumKernels(c.impl))
            /\ pd' = NewPd
            /\ pc' = "created"
            /\ UNCHANGED <<launches, exec_status, pairvars, servars>>

PdDone(p) == IF p.status = "success" THEN "pd_ready" ELSE "pd_failed"

\* reusable_batch_normalization_fwd_t::pd_t::init(engine)
FwdPdInitCall == /\ pc = "created" /\ desc.impl = "fwd"
                 /\ pd' = FwdPdInit(pd, desc)
                 /\ pc' = PdDone(pd')
                 /\ UNCHANGED <<desc, prim, launches, exec_status, pairvars, servars>>

\* reusable_batch_normalization_bwd_t::pd_t::init(engine)
BwdPdInitCall == /\ pc = "created" /\ desc.impl = "bwd"
                 /\ pd' = BwdPdInit(pd, desc)
                 /\ pc' = PdDone(pd')
                 /\ UNCHANGED <<desc, prim, launches, exec_status, pairvars, servars>>

InitDone(pr) == IF pr.status = "success" THEN "ready" ELSE "init_failed"

\* reusable_batch_normalization_fwd_t::init(engine)
FwdInitCall == /\ pc = "pd_ready" /\ desc.impl = "fwd"
               /\ \E ck_ok \in BOOLEAN : prim' = FwdInit(prim, pd, desc, ck_ok)
               /\ pc' = InitDone(prim')
               /\ UNCHANGED <<desc, pd, launches, exec_status, pairvars, servars>>

\* reusable_batch_normalization_bwd_t::init(engine)
BwdInitCall == /\ pc = "pd_ready" /\ desc.impl = "bwd"
               /\ \E ck_ok \in BOOLEAN : prim' = BwdInit(prim, pd, desc, ck_ok)
               /\ pc' = InitDone(prim')
               /\ UNCHANGED <<desc, pd, launches, exec_status, pairvars, servars>>

\* reusable_batch_normalization_fwd_t::execute(ctx)
FwdExecute == /\ pc = "ready" /\ desc.impl = "fwd"
              /\ \E fail \in 0..Len(execute_forward(pd, desc)) : launches' = Issued(execute_forward(pd, desc), fail) /\ exec_status' = (IF fail = 0 THEN "success" ELSE "runtime_error")
              /\ pc' = "executed"
              /\ UNCHANGED <<desc, pd, prim, pairvars, servars>>

\* reusable_batch_normalization_bwd_t::execute(ctx)
BwdExecute == /\ pc = "ready" /\ desc.impl = "bwd"
              /\ \E fail \in 0..Len(execute_backward(pd, desc)) : launches' = Issued(execute_backward(pd, desc), fail) /\ exec_status' = (IF fail = 0 THEN "success" ELSE "runtime_error")
              /\ pc' = "executed"
              /\ UNCHANGED <<desc, pd, prim, pairvars, servars>>

Next == PdCreate \/ FwdPdInitCall \/ BwdPdInitCall \/ FwdInitCall \/ BwdInitCall \/ FwdExecute \/ BwdExecute

Spec == Init /\ [][Next]_vars

-----------------------------------------------------------------------------
(* Two primitives whose descriptors passed pd_t::init, each initialized on its own *)

PairFwdDescs == [impl : {"fwd"}, prop_kind : {"forward_training", "forward_inference"}, src_dt : {"f32", "s8"}, dst_same : {TRUE}, diff_src_same : {TRUE}, diff_dst_same : {TRUE}, khr_fp16 : {TRUE}, intel_subgroups : {TRUE}, use_global_stats : BOOLEAN, scale_shift_dt_ok : {TRUE}, attr : {"default"}, formats_ok : {TRUE}, md_equal : {TRUE}, fuse_norm_relu : BOOLEAN, fuse_norm_add_relu : {FALSE}, hint : {"null"}, mb : 0..MaxMB, ic : 0..MaxIC]

PairBwdDescs == [impl : {"bwd"}, prop_kind : {"backward"}, src_dt : {"f32", "bf16"}, dst_same : {TRUE}, diff_src_same : {TRUE}, diff_dst_same : {TRUE}, khr_fp16 : {TRUE}, intel_subgroups : {TRUE}, use_global_stats : {FALSE}, scale_shift_dt_ok : {TRUE}, attr : {"default"}, formats_ok : {TRUE}, md_equal : {TRUE}, fuse_norm_relu : BOOLEAN, fuse_norm_add_relu : {FALSE}, hint : {"default_ws"}, mb : 0..MaxMB, ic : 0..MaxIC]

\* pd_t(adesc, attr, hint_fwd_pd) followed by a pd_t::init that succeeds
PairFwdPd(i) == /\ pair[i].st = "none"
                /\ \E c \in PairFwdDescs : /\ FwdPdInit(NewPd, MkDesc(c)).status = "success"
                                           /\ pair' = [pair EXCEPT ![i] = [st |-> "pd_ready", desc |-> MkDesc(c), pd |-> FwdPdInit(NewPd, MkDesc(c)), prim |-> NewPrim(NumKernels("fwd"))]]
                /\ UNCHANGED <<primvars, servars>>

PairBwdPd(i) == /\ pair[i].st = "none"
                /\ \E c \in PairBwdDescs : /\ BwdPdInit(NewPd, MkDesc(c)).status = "success"
                                           /\ pair' = [pair EXCEPT ![i] = [st |-> "pd_ready", desc |-> MkDesc(c), pd |-> BwdPdInit(NewPd, MkDesc(c)), prim |-> NewPrim(NumKernels("bwd"))]]
                /\ UNCHANGED <<primvars, servars>>

\* reusable_batch_normalization_fwd_t::init(engine) of primitive i
PairFwdInit(i) == /\ pair[i].st = "pd_ready" /\ pair[i].desc.impl = "fwd"
                  /\ \E ck_ok \in BOOLEAN : pair' = [pair EXCEPT ![i].prim = FwdInit(pair[i].prim, pair[i].pd, pair[i].desc, ck_ok), ![i].st = InitDone(FwdInit(pair[i].prim, pair[i].pd, pair[i].desc, ck_ok))]
                  /\ UNCHANGED <<primvars, servars>>

\* reusable_batch_normalization_bwd_t::init(engine) of primitive i
PairBwdInit(i) == /\ pair[i].st = "pd_ready" /\ pair[i].desc.impl = "bwd"
                  /\ \E ck_ok \in BOOLEAN : pair' = [pair EXCEPT ![i].prim = BwdInit(pair[i].prim, pair[i].pd, pair[i].desc, ck_ok), ![i].st = InitDone(BwdInit(pair[i].prim, pair[i].pd, pair[i].desc, ck_ok))]
                  /\ UNCHANGED <<primvars, servars>>

PairNext == \E i \in 1..2 : PairFwdPd(i) \/ PairBwdPd(i) \/ PairFwdInit(i) \/ PairBwdInit(i)

SpecPair == Init /\ [][PairNext]_vars

-----------------------------------------------------------------------------
(* A configuration record: built, serialized, read back *)

LogicalFields == [data_type : {"f32", "bf16", "f16", "s8"}, use_scale : BOOLEAN, use_shift : BOOLEAN, is_training : BOOLEAN, fuse_norm_relu : BOOLEAN, fuse_norm_add_relu : BOOLEAN, with_relu : BOOLEAN, with_leaky_relu : BOOLEAN, calculate_stats : BOOLEAN, calc_stat_params : 0..MaxLayout, reduce_stat_params : 0..MaxLayout, gws_params : 0..MaxLayout]

\* reusable_bnorm_params_t conf; (the member of a pd_t)
SerConstruct == /\ sst = "none"
                /\ rec' \in IndeterminateConfs
                /\ sst' = "constructed"
                /\ UNCHANGED <<key, out, primvars, pairvars>>

\* init_conf writes the logical fields
SerInitConf == /\ sst = "constructed"
               /\ \E f \in LogicalFields : rec' = SetConf(rec, f)
               /\ sst' = "built"
               /\ UNCHANGED <<key, out, primvars, pairvars>>

\* conf.serialize()
SerSerialize == /\ sst = "built"
                /\ key' = serialize(rec)
                /\ sst' = "serialized"
                /\ UNCHANGED <<rec, out, primvars, pairvars>>

\* reusable_bnorm_params_t::deserialize(key)
SerDeserialize == /\ sst = "serialized"
                  /\ out' \in deserialize(key)
                  /\ sst' = "deserialized"
                  /\ UNCHANGED <<rec, key, primvars, pairvars>>

SerNext == SerConstruct \/ SerInitConf \/ SerSerialize \/ SerDeserialize

SpecSer == Init /\ [][SerNext]_vars

-----------------------------------------------------------------------------
(* deserialize on a byte sequence of any length *)

KeyFields == [data_type : {"f32", "s8"}, use_scale : BOOLEAN, use_shift : {FALSE}, is_training : BOOLEAN, fuse_norm_relu : {FALSE}, fuse_norm_add_relu : {FALSE}, with_relu : {FALSE}, with_leaky_relu : {FALSE}, calculate_stats : BOOLEAN, calc_stat_params : {0}, reduce_stat_params : {0}, gws_params : 0..MaxLayout]

ExtraBytes == UNION {[1..n -> {0, 1}] : n \in 0..MaxExtra}

\* a key: the bytes of a record, cut short or followed by further bytes
KeyMake == /\ sst = "none"
           /\ \E f \in KeyFields, n \in 0..RecordSize, x \in ExtraBytes : /\ rec' = SetConf(DefaultConf, f)
                                                                          /\ key' = IF n < RecordSize THEN SubSeq(serialize(SetConf(DefaultConf, f)), 1, n) ELSE serialize(SetConf(DefaultConf, f)) \o x
           /\ sst' = "serialized"
           /\ UNCHANGED <<out, primvars, pairvars>>

KeyNext == KeyMake \/ SerDeserialize

SpecKey == Init /\ [][KeyNext]_vars

-----------------------------------------------------------------------------
(* Properties *)

PdInitReturned == pc \in {"pd_failed", "pd_ready", "ready", "init_failed", "executed"}

PrimInitReturned == pc \in {"ready", "init_failed", "executed"}

\* the kernel-name list each direction and statistics source is to request
ExpectedKernelNames(impl, calc) == CASE impl = "fwd" /\ ~calc -> <<"reusable_bnorm_fwd", Absent, Absent, Absent, Absent>> [] impl = "fwd" /\ calc -> <<"reusable_bnorm_fwd", "reusable_calculate_mean", "reusable_calculate_variance", "reusable_reduce_mean", "reusable_reduce_variance">> [] OTHER -> <<"reusable_bnorm_bwd", "reusable_calculate_stats", "reusable_reduce_stats">>

\* C1: without a zero-sized dimension, primitive init requests the list fixed by the
\* direction and by conf.calculate_stats: forward without statistics the main kernel
\* and four absent names, forward with statistics the main kernel and local mean,
\* local variance, reduce mean, reduce variance in that order, backward the main
\* kernel and its two statistics kernels.
C1_KernelNamesByDirectionAndStats == (PrimInitReturned /\ ~has_zero_dim_memory(desc)) => prim.kernel_names = ExpectedKernelNames(desc.impl, pd.conf.calculate_stats)

C1_Witness == pc = "ready" /\ desc.impl = "fwd" /\ pd.conf.calculate_stats /\ ~has_zero_dim_memory(desc) /\ Len(prim.kernel_names) = 5

\* C2: the kernel names handed to the engine for compilation contain no kernel outside
\* the set required for the direction and statistics source.
C2_OnlyRequiredKernelsCompiled == PrimInitReturned => prim.compiled \subseteq (Range(ExpectedKernelNames(desc.impl, pd.conf.calculate_stats)) \ {Absent})

PairInited(i) == pair[i].st \in {"ready", "init_failed"}

SameConf(i, j) == pair[i].desc.impl = pair[j].desc.impl /\ pair[i].pd.conf = pair[j].pd.conf

\* C3 as stated: two initialized primitives of the same direction with equal conf
\* records have requested the same kernel-name list, whatever their shapes are,
\* a zero-sized dimension included.
C3_SameConfSameNamesAnyShape == \A i, j \in 1..2 : (PairInited(i) /\ PairInited(j) /\ SameConf(i, j)) => pair[i].prim.kernel_names = pair[j].prim.kernel_names

\* C3 amended: two initialized primitives of the same direction with equal conf
\* records that agree on having a zero-sized dimension have requested the same
\* kernel-name list, whatever else their shapes and run-time records are; with a
\* zero-sized dimension no list is requested at all.
C3_SameConfSameNames == \A i, j \in 1..2 : (PairInited(i) /\ PairInited(j) /\ SameConf(i, j) /\ has_zero_dim_memory(pair[i].desc) = has_zero_dim_memory(pair[j].desc)) => (pair[i].prim.kernel_names = pair[j].prim.kernel_names /\ (has_zero_dim_memory(pair[i].desc) => pair[i].prim.kernel_names = <<>>))

C3_Witness == PairInited(1) /\ PairInited(2) /\ SameConf(1, 2) /\ pair[1].desc.impl = "fwd" /\ pair[1].pd.conf.calculate_stats /\ ~has_zero_dim_memory(pair[1].desc) /\ ~has_zero_dim_memory(pair[2].desc) /\ pair[1].pd.rt_conf # pair[2].pd.rt_conf

\* C4: with a zero-sized dimension, primitive init of either direction succeeds without
\* calling create_kernels (no name requested, nothing compiled, every handle absent),
\* and execute issues no launch and returns success.
C4_ZeroDimShortCircuit == has_zero_dim_memory(desc) => /\ pc # "init_failed"
                                                       /\ PrimInitReturned => (prim.status = "success" /\ ~prim.create_kernels_called /\ prim.kernel_names = <<>> /\ prim.compiled = {} /\ \A i \in DOMAIN prim.kernels : prim.kernels[i] = Absent)
                                                       /\ pc = "executed" => (launches = <<>> /\ exec_status = "success")

C4_Witness == pc = "executed" /\ has_zero_dim_memory(desc) /\ desc.impl = "bwd" /\ desc.mb > 0

\* C5: a forward pd_t::init on s8 in training mode or with computed statistics returns
\* unimplemented before init_default_ws, init_conf and init_scratchpad; the backward
\* pd_t::init returns unimplemented on every s8 descriptor.
C5_S8OnlyInferenceWithGivenStats == (PdInitReturned /\ desc.src_dt = "s8") => /\ (desc.impl = "fwd" /\ (is_training(desc) \/ ~stats_is_src(desc))) => (pd.status = "unimplemented" /\ pd.trace = <<>> /\ ~pd.scratchpad)
                                                                              /\ desc.impl = "bwd" => pd.status = "unimplemented"

C5_Witness == pc = "pd_failed" /\ desc.impl = "fwd" /\ desc.src_dt = "s8" /\ is_training(desc) /\ stats_is_src(desc) /\ FwdOk([desc EXCEPT !.prop_kind = "forward_inference"])

\* C6: a backward pd_t::init with fuse_norm_relu or fuse_norm_add_relu returns
\* unimplemented when its default workspace differs from the forward descriptor's;
\* an otherwise valid backward descriptor without the fusion, or whose workspace
\* matches, goes on to init_conf.
C6_FusionWorkspacePairing == (PdInitReturned /\ desc.impl = "bwd") => /\ (BwdFused(desc) /\ ~compare_ws(init_default_ws(NewPd), desc)) => pd.status = "unimplemented"
                                                                      /\ (BwdOk(desc) /\ (~BwdFused(desc) \/ compare_ws(init_default_ws(NewPd), desc))) => "init_conf" \in Range(pd.trace)

C6_Witness == pc = "pd_failed" /\ desc.impl = "bwd" /\ BwdOk(desc) /\ desc.fuse_norm_relu /\ desc.hint = "no_ws" /\ "compare_ws" \in Range(pd.trace)

\* C7: whenever pd_t::init returns other than success, nothing was committed before:
\* the workspace is as the constructor left it (init_default_ws did not run), conf and
\* rt_conf are not built and the scratchpad is not booked.
C7_NoCommitmentOnFailure == pc = "pd_failed" => (pd.ws_md = NewPd.ws_md /\ "init_default_ws" \notin Range(pd.trace) /\ pd.conf = NewPd.conf /\ pd.rt_conf = NewPd.rt_conf /\ ~pd.scratchpad)

\* C8: on a byte sequence whose length is not the size of the record, deserialize
\* signals an error and returns no record.
C8_DeserializeRejectsWrongLength == (sst = "deserialized" /\ Len(key) # RecordSize) => ~out.ok

C10_PaddingZero == /\ sst # "none" => rec.padding = <<0, 0, 0, 0>>
                   /\ sst = "deserialized" => out.value.padding = <<0, 0, 0, 0>>
                   /\ sst \in {"serialized", "deserialized"} => key = serialize(SetConf(ZeroConf, rec))

C10_Witness == sst = "deserialized" /\ out.ok /\ out.value.with_relu /\ out.value.data_type = "bf16" /\ Len(key) = RecordSize

====
